---- MODULE Spec2Model ----
(***************************************************************************)
(* DiabetesGuard Pro: the risk-scoring pipeline of app/utils/model_handler *)
(* (feature preparation, scoring, risk bands, recommendations), the        *)
(* prediction page of app/components/predict.py that drives it, the home   *)
(* and analytics pages and the dataset lookup of app/utils/data_loader,    *)
(* the two training scripts that write the bundle, and the recommendation  *)
(* function of diabetes_app.py.                                            *)
(*                                                                         *)
(* Specifications: Spec (the prediction page), SpecPages (the three pages  *)
(* behind the sidebar), SpecCalls (the functions called on their own),     *)
(* SpecConcurrent (requests of several sessions interleaved), SpecTrain    *)
(* (a training script run, then get_prediction).                           *)
(*                                                                         *)
(* Python values are tagged records: Num(n) is a number, Str(s) a string,  *)
(* NoneV is None.  A dict is the sequence of its <<key, value>> items in   *)
(* insertion order (Python dicts and DataFrame columns keep that order).   *)
(* A mapping object is [type, items]: a dict or a pandas Series.           *)
(*                                                                         *)
(* Units: Exercise_Hours_Per_Week is held in tenths of an hour (2.5 h is   *)
(* 25); probabilities are held in percent (0.2 is 20).  Every other number *)
(* is held as it is.                                                       *)
(***************************************************************************)
EXTENDS Integers, Sequences, FiniteSets, TLC

VARIABLES
    fs,               \* the candidate model directories and what each holds
    pc,               \* position of the running page handler or call
    form,             \* the values as entered, in the caller's keeping
    input_data,       \* the mapping object handed to the pipeline
    input_df,         \* the frame get_prediction hands to scaler.transform
    result,           \* what get_prediction / the called function returned
    recommendations,  \* what get_recommendations returned
    n_calls,          \* calls made on input_data so far
    env,              \* the process's surroundings: cwd, the dataset's files
    log,              \* what the process has done: requests, bundle loads,
                      \* and the estimator calls of the last scoring
    sessions          \* the requests of concurrent sessions, each its own

vars == <<fs, pc, form, input_data, input_df, result, recommendations, n_calls,
          env, log, sessions>>

----------------------------------------------------------------------------
(* Python values *)

Num(n) == [num |-> n]
Str(s) == [str |-> s]
NoneV == [none |-> TRUE]

IsNum(v) == DOMAIN v = {"num"}
IsStr(v) == DOMAIN v = {"str"}

(* dicts: sequences of <<key, value>> with distinct keys *)

Keys(d) == {d[i][1] : i \in DOMAIN d}
Has(d, k) == k \in Keys(d)
Item(d, k) == d[CHOOSE i \in DOMAIN d : d[i][1] = k][2]
Get(d, k, default) == IF Has(d, k) THEN Item(d, k) ELSE default
SetItem(d, k, v) ==
    IF Has(d, k)
    THEN [i \in DOMAIN d |-> IF d[i][1] = k THEN <<k, v>> ELSE d[i]]
    ELSE Append(d, <<k, v>>)

Dict(items) == [type |-> "dict", items |-> items]
Series(items) == [type |-> "Series", items |-> items]
to_dict(obj) == Dict(obj.items)

Returned(v) == [raised |-> FALSE, value |-> v]
Raised(e) == [raised |-> TRUE, value |-> Str(e)]

----------------------------------------------------------------------------
(* prepare_input_data: model_handler.py:96-115 *)

GenderCodes == [Male |-> 0, Female |-> 1]
SmokingCodes == [Never |-> 0, Former |-> 1, Current |-> 2]
\* the stress codes in sorted order of the names
StressCodesSorted == [High |-> 0, Low |-> 1, Moderate |-> 2]
StressCodes == [Low |-> 0, Moderate |-> 1, High |-> 2]

mappings ==
    << <<"Gender", GenderCodes>>,
       <<"Smoking_Status", SmokingCodes>>,
       <<"Stress_Level", StressCodes>> >>

\* mapping.get(value, 0)
MappingGet(mapping, s) == IF s \in DOMAIN mapping THEN mapping[s] ELSE 0

\* ApplyMapping without the isinstance test of line 112: whatever the
\* column holds is looked up in the table
ApplyMappingAnyValue(d, col, mapping) ==
    IF Has(d, col)
    THEN SetItem(d, col,
                 Num(IF IsStr(Item(d, col))
                     THEN MappingGet(mapping, Item(d, col).str) ELSE 0))
    ELSE d

\* one turn of the loop at lines 110-113
ApplyMapping(d, col, mapping) ==
    IF Has(d, col) /\ IsStr(Item(d, col))
    THEN SetItem(d, col, Num(MappingGet(mapping, Item(d, col).str)))
    ELSE d

RECURSIVE ApplyMappings(_, _)
ApplyMappings(d, i) ==
    IF i > Len(mappings) THEN d
    ELSE ApplyMappings(ApplyMapping(d, mappings[i][1], mappings[i][2]), i + 1)

\* The returned dict and the caller's object after the call.  A dict is
\* encoded in place, so the caller's object is the returned one; a Series
\* is first copied by to_dict (line 107) and stays as it was.
prepare_input_data(obj) ==
    LET out == Dict(ApplyMappings(obj.items, 1))
    IN [ret |-> out, arg |-> IF obj.type = "Series" THEN obj ELSE out]

----------------------------------------------------------------------------
(* get_risk_level: model_handler.py:158-167 (probability in percent) *)

LowBelow == 20
ModerateBelow == 40
HighBelow == 60

\* get_risk_level with each breakpoint taken into the lower band
get_risk_level_inclusive(probability) ==
    IF probability <= LowBelow THEN "Low Risk"
    ELSE IF probability <= ModerateBelow THEN "Moderate Risk"
    ELSE IF probability <= HighBelow THEN "High Risk"
    ELSE "Very High Risk"

get_risk_level(probability) ==
    IF probability < LowBelow THEN "Low Risk"
    ELSE IF probability < ModerateBelow THEN "Moderate Risk"
    ELSE IF probability < HighBelow THEN "High Risk"
    ELSE "Very High Risk"

----------------------------------------------------------------------------
(* get_recommendations: model_handler.py:169-221 *)

BmiObese == 30
BmiOverweight == 25
BpHigh == 140
BpElevated == 120
GlucoseDiabetic == 126
GlucoseElevated == 100
ExerciseMinTenths == 25
AlcoholMax == 14

\* BmiRule with the thresholds themselves taken into the upper tier
BmiRuleInclusive(d) ==
    LET bmi == Get(d, "BMI", Num(0))
    IN IF ~IsNum(bmi) THEN Raised("TypeError")
       ELSE IF bmi.num >= BmiObese THEN Returned(<<"Weight Management">>)
       ELSE IF bmi.num >= BmiOverweight THEN Returned(<<"Weight Watch">>)
       ELSE Returned(<<>>)

\* BmiRule with two separate ifs in place of if / elif
BmiRuleBothBlocks(d) ==
    LET bmi == Get(d, "BMI", Num(0))
    IN IF ~IsNum(bmi) THEN Raised("TypeError")
       ELSE Returned((IF bmi.num > BmiObese THEN <<"Weight Management">> ELSE <<>>)
                     \o (IF bmi.num > BmiOverweight THEN <<"Weight Watch">> ELSE <<>>))

\* `x > n` and `x < n` raise TypeError unless x is a number.
BmiRule(d) ==
    LET bmi == Get(d, "BMI", Num(0))
    IN IF ~IsNum(bmi) THEN Raised("TypeError")
       ELSE IF bmi.num > BmiObese THEN Returned(<<"Weight Management">>)
       ELSE IF bmi.num > BmiOverweight THEN Returned(<<"Weight Watch">>)
       ELSE Returned(<<>>)

BpRule(d) ==
    LET bp == Get(d, "Blood_Pressure", Num(0))
    IN IF ~IsNum(bp) THEN Raised("TypeError")
       ELSE IF bp.num > BpHigh THEN Returned(<<"Blood Pressure Management">>)
       ELSE IF bp.num > BpElevated THEN Returned(<<"Blood Pressure Watch">>)
       ELSE Returned(<<>>)

GlucoseRule(d) ==
    LET glucose == Get(d, "Glucose_Level", Num(0))
    IN IF ~IsNum(glucose) THEN Raised("TypeError")
       ELSE IF glucose.num > GlucoseDiabetic THEN Returned(<<"Blood Sugar Control">>)
       ELSE IF glucose.num > GlucoseElevated THEN Returned(<<"Blood Sugar Watch">>)
       ELSE Returned(<<>>)

ExerciseRule(d) ==
    LET exercise == Get(d, "Exercise_Hours_Per_Week", Num(0))
    IN IF ~IsNum(exercise) THEN Raised("TypeError")
       ELSE IF exercise.num < ExerciseMinTenths THEN Returned(<<"Physical Activity">>)
       ELSE Returned(<<>>)

SmokingRule(d) ==
    LET smoking == Get(d, "Smoking_Status", Str(""))
    IN IF smoking = Str("Current") THEN Returned(<<"Smoking Cessation">>)
       ELSE Returned(<<>>)

AlcoholRule(d) ==
    LET alcohol == Get(d, "Alcohol_Consumption_Per_Week", Num(0))
    IN IF ~IsNum(alcohol) THEN Raised("TypeError")
       ELSE IF alcohol.num > AlcoholMax THEN Returned(<<"Alcohol Moderation">>)
       ELSE Returned(<<>>)

StressRule(d) ==
    LET stress == Get(d, "Stress_Level", Str(""))
    IN IF stress \in {Str("High"), Str("Moderate")}
       THEN Returned(<<"Stress Management">>)
       ELSE Returned(<<>>)

GeneralRule == <<"General Health Tips">>

\* Appended with the general block appended before the rules run
AppendedGeneralFirst(bmi, bp, glucose, exercise, smoking, alcohol, stress) ==
    GeneralRule \o bmi \o bp \o glucose \o exercise \o smoking \o alcohol
        \o stress

\* Appended with the blood-pressure rule chained to the BMI rule by elif
AppendedBpChained(bmi, bp, glucose, exercise, smoking, alcohol, stress) ==
    bmi \o (IF bmi = <<>> THEN bp ELSE <<>>) \o glucose \o exercise
        \o smoking \o alcohol \o stress \o GeneralRule

\* Appended with the alcohol rule placed before the smoking rule
AppendedAlcoholFirst(bmi, bp, glucose, exercise, smoking, alcohol, stress) ==
    bmi \o bp \o glucose \o exercise \o alcohol \o smoking \o stress
        \o GeneralRule

\* The list after every append of lines 175-219, in the order they run.
Appended(bmi, bp, glucose, exercise, smoking, alcohol, stress) ==
    bmi \o bp \o glucose \o exercise \o smoking \o alcohol \o stress
        \o GeneralRule

\* The rules run top to bottom, each appending to the one list; the first
\* comparison that raises ends the call with no list returned.
get_recommendations(obj) ==
    LET d == (IF obj.type = "Series" THEN to_dict(obj) ELSE obj).items
        bmi == BmiRule(d)
        bp == BpRule(d)
        glucose == GlucoseRule(d)
        exercise == ExerciseRule(d)
        smoking == SmokingRule(d)
        alcohol == AlcoholRule(d)
        stress == StressRule(d)
    IN IF bmi.raised THEN bmi
       ELSE IF bp.raised THEN bp
       ELSE IF glucose.raised THEN glucose
       ELSE IF exercise.raised THEN exercise
       ELSE IF alcohol.raised THEN alcohol
       ELSE Returned(Appended(bmi.value, bp.value, glucose.value,
                              exercise.value, smoking.value, alcohol.value,
                              stress.value))

----------------------------------------------------------------------------
(* The encodings of the training scripts *)

\* train_model.py:47-51
train_model_mappings ==
    [Gender |-> [Male |-> 0, Female |-> 1],
     Smoking_Status |-> [Never |-> 0, Former |-> 1, Current |-> 2],
     Stress_Level |-> [Low |-> 0, Moderate |-> 1, High |-> 2]]

\* train_model.py:54-55: df[col].map(mapping), the code of a name in the table
train_model_encode(col, name) == train_model_mappings[col][name]

\* The category names in the order Python sorts strings.
SortedNames ==
    <<"Current", "Female", "Former", "High", "Low", "Male", "Moderate", "Never">>

\* The names a categorical column of the dataset holds.
DatasetCategories ==
    [Gender |-> {"Male", "Female"},
     Smoking_Status |-> {"Never", "Former", "Current"},
     Stress_Level |-> {"Low", "Moderate", "High"}]

\* LabelEncoder().fit (verify_and_train.py:51-52): classes_ holds the
\* column's distinct values, sorted
LabelEncoder_fit(values) == SelectSeq(SortedNames, LAMBDA name : name \in values)

\* LabelEncoder transform: the position of the name in classes_, from 0
LabelEncoder_transform(classes, name) ==
    (CHOOSE i \in DOMAIN classes : classes[i] = name) - 1

\* verify_and_train.py:49-53: fit_transform on the dataset's column
verify_and_train_encode(col, name) ==
    LabelEncoder_transform(LabelEncoder_fit(DatasetCategories[col]), name)

----------------------------------------------------------------------------
(* get_recommendations of the main application: diabetes_app.py:92-134.    *)
(* The arguments are the numbers and strings themselves; exercise_hours is *)
(* in tenths of an hour.  The list is given by its blocks' headings.       *)

app_get_recommendations(age, bmi, blood_pressure, glucose_level, exercise_hours, alcohol_consumption, smoking_status, stress_level) ==
    (IF bmi > 30 THEN <<"Weight Management">>
     ELSE IF bmi > 25 THEN <<"Weight Watch">> ELSE <<>>)
    \o (IF blood_pressure > 140 THEN <<"Blood Pressure Management">>
        ELSE IF blood_pressure > 120 THEN <<"Blood Pressure Watch">> ELSE <<>>)
    \o (IF glucose_level > 126 THEN <<"Blood Sugar Control">>
        ELSE IF glucose_level > 100 THEN <<"Blood Sugar Watch">> ELSE <<>>)
    \o (IF exercise_hours < 25 THEN <<"Physical Activity">> ELSE <<>>)
    \o (IF alcohol_consumption > 7 THEN <<"Alcohol Consumption">> ELSE <<>>)
    \o (IF smoking_status = "Current" THEN <<"Smoking Cessation">> ELSE <<>>)
    \o (IF stress_level = "High" THEN <<"Stress Management">>
        ELSE IF stress_level = "Moderate" THEN <<"Stress Reduction">> ELSE <<>>)
    \o <<"Regular Health Check-ups">>

----------------------------------------------------------------------------
(* The artifact bundle on disk: model_handler.py:11-94 *)

\* model_dirs (lines 20-24), in probe order:
\*   1 project_root/models, 2 /mount/src/diabetes-analysis/models, 3 cwd/models
model_dirs == <<1, 2, 3>>

\* filenames (lines 32-36)
filenames == {"model", "scaler", "features"}

\* A directory: whether it exists, the files it holds, and the training
\* script that wrote them.
NoDir == [exists |-> FALSE, files |-> {}, by |-> "none"]
EmptyDir == [exists |-> TRUE, files |-> {}, by |-> "none"]
BundleDir(files, by) == [exists |-> TRUE, files |-> files, by |-> by]

\* feature_columns of train_model.py prepare_data (lines 61-67)
TrainModelColumns ==
    <<"Age", "Gender", "BMI", "Blood_Pressure", "Glucose_Level",
      "Exercise_Hours_Per_Week", "Smoking_Status",
      "Alcohol_Consumption_Per_Week", "Stress_Level",
      "Age_BMI", "BMI_Glucose", "Age_Risk", "BMI_Risk",
      "BP_Risk", "Glucose_Risk">>

\* The dataset's header without the target column: what verify_and_train.py
\* writes as X.columns.tolist() (lines 57-61).
DatasetColumns ==
    <<"Age", "Gender", "BMI", "Blood_Pressure", "Glucose_Level",
      "Exercise_Hours_Per_Week", "Smoking_Status",
      "Alcohol_Consumption_Per_Week", "Stress_Level">>

\* The text of feature_columns.txt, as its column names and line ends.
\* train_model.py:123-124 writes the names joined by "\n";
\* verify_and_train.py:121-123 writes each name followed by "\n".
RECURSIVE JoinedByNewline(_)
JoinedByNewline(columns) ==
    IF Len(columns) <= 1 THEN columns
    ELSE <<Head(columns), "\n">> \o JoinedByNewline(Tail(columns))

RECURSIVE EachWithNewline(_)
EachWithNewline(columns) ==
    IF columns = <<>> THEN <<>>
    ELSE <<Head(columns), "\n">> \o EachWithNewline(Tail(columns))

FeatureColumnsText(by) ==
    IF by = "train_model" THEN JoinedByNewline(TrainModelColumns)
    ELSE EachWithNewline(DatasetColumns)

\* [line.strip() for line in f.readlines()] (model_handler.py:76-77): the
\* text is cut after each "\n"; line holds what the line in hand has so far
RECURSIVE readlines(_, _)
readlines(text, line) ==
    IF text = <<>> THEN (IF line = <<>> THEN <<>> ELSE <<line[1]>>)
    ELSE IF Head(text) = "\n"
         THEN <<IF line = <<>> THEN "" ELSE line[1]>> \o readlines(Tail(text), <<>>)
    ELSE readlines(Tail(text), Append(line, Head(text)))

\* feature_columns.txt as read back, one stripped line per column (76-77)
FeatureColumnsFile(by) == readlines(FeatureColumnsText(by), <<>>)

\* the keys of filenames, in the order the loop of lines 55-58 visits them
file_types == <<"model", "scaler", "features">>

\* A FileNotFoundError and what its message names: the thing not found and
\* the paths the message lists.
NotFound(what, paths) ==
    [raised |-> TRUE,
     value |-> [str |-> "FileNotFoundError", what |-> what, paths |-> paths]]

\* find_model_files with a message that names only the last directory tried
find_model_files_last_named(files) ==
    LET found == {i \in DOMAIN model_dirs : files[model_dirs[i]].exists}
        first == CHOOSE i \in found : \A j \in found : i <= j
        model_dir == model_dirs[first]
        missing == {t \in DOMAIN file_types :
                        file_types[t] \notin files[model_dir].files}
        file_type == file_types[CHOOSE t \in missing : \A u \in missing : t <= u]
    IN IF found = {}
       THEN NotFound("models directory", {model_dirs[Len(model_dirs)]})
       ELSE IF ~(filenames \subseteq files[model_dir].files)
            THEN NotFound(file_type, {model_dir})
       ELSE Returned(model_dir)

\* find_model_files: the first candidate directory that exists is taken,
\* and every file must be in it.  Line 47 names every candidate directory;
\* line 58 names the one file missing from the directory taken.
find_model_files(files) ==
    LET found == {i \in DOMAIN model_dirs : files[model_dirs[i]].exists}
        first == CHOOSE i \in found : \A j \in found : i <= j
        model_dir == model_dirs[first]
        missing == {t \in DOMAIN file_types :
                        file_types[t] \notin files[model_dir].files}
        file_type == file_types[CHOOSE t \in missing : \A u \in missing : t <= u]
    IN IF found = {}
       THEN NotFound("models directory",
                     {model_dirs[i] : i \in DOMAIN model_dirs})
       ELSE IF ~(filenames \subseteq files[model_dir].files)
            THEN NotFound(file_type, {model_dir})
       ELSE Returned(model_dir)

\* load_model_components: (model, scaler, feature_columns), or the error
\* of find_model_files re-raised (line 94).
load_model_components(files) ==
    LET model_files == find_model_files(files)
    IN IF model_files.raised THEN model_files
       ELSE Returned([model |-> files[model_files.value].by,
                      scaler |-> files[model_files.value].by,
                      feature_columns |->
                          FeatureColumnsFile(files[model_files.value].by)])

----------------------------------------------------------------------------
(* The dataset on disk: data_loader.py:37-65 *)

\* locations (lines 46-49), in probe order:
\*   1 project_root/data/diabetes_dataset.csv, 2 project_root/diabetes_dataset.csv
locations == <<1, 2>>

\* find_data_file: the first location that exists, or FileNotFoundError
\* naming every location (lines 63-65).  data[l] tells whether l exists.
find_data_file(data) ==
    LET found == {i \in DOMAIN locations : data[locations[i]]}
        first == CHOOSE i \in found : \A j \in found : i <= j
    IN IF found = {}
       THEN NotFound("diabetes_dataset.csv",
                     {locations[i] : i \in DOMAIN locations})
       ELSE Returned(locations[first])

----------------------------------------------------------------------------
(* The fitted scaler and classifier.  The .joblib files are not part of    *)
(* the sources; the two stand for a fitted StandardScaler (each column     *)
(* centred on its training mean) and a fitted classifier (a fixed function *)
(* of the scaled row with a probability in 0..100).                        *)

ScalerMean(col) ==
    CASE col = "Age" -> 50
      [] col = "BMI" -> 27
      [] col = "Blood_Pressure" -> 130
      [] col = "Glucose_Level" -> 110
      [] col = "Exercise_Hours_Per_Week" -> 30
      [] col = "Alcohol_Consumption_Per_Week" -> 7
      [] OTHER -> 1

scaler_transform(df) ==
    [i \in DOMAIN df |-> df[i][2].num - ScalerMean(df[i][1])]

RiskColumns ==
    {"BMI", "Blood_Pressure", "Glucose_Level", "Smoking_Status", "Stress_Level"}

predict_proba(columns, input_scaled) ==
    LET votes == Cardinality({i \in DOMAIN input_scaled :
                     columns[i] \in RiskColumns /\ input_scaled[i] > 0})
        young == \E i \in DOMAIN input_scaled :
                     columns[i] = "Age" /\ input_scaled[i] < 0
        p == 20 * votes - (IF young THEN 1 ELSE 0)
    IN IF p < 0 THEN 0 ELSE IF p > 100 THEN 100 ELSE p

\* model.predict: the class of the larger probability, class 0 on a tie
predict(columns, input_scaled) == predict_proba(columns, input_scaled) > 50

----------------------------------------------------------------------------
(* get_prediction: model_handler.py:117-156 *)

\* AddMissingColumns leaving each added column empty (NaN)
RECURSIVE AddMissingColumnsEmpty(_, _, _)
AddMissingColumnsEmpty(df, feature_columns, i) ==
    IF i > Len(feature_columns) THEN df
    ELSE AddMissingColumnsEmpty(
             IF Has(df, feature_columns[i]) THEN df
             ELSE Append(df, <<feature_columns[i], NoneV>>),
             feature_columns, i + 1)

\* lines 128-131: each missing column is added, at the end, holding 0
RECURSIVE AddMissingColumns(_, _, _)
AddMissingColumns(df, feature_columns, i) ==
    IF i > Len(feature_columns) THEN df
    ELSE AddMissingColumns(
             IF Has(df, feature_columns[i]) THEN df
             ELSE Append(df, <<feature_columns[i], Num(0)>>),
             feature_columns, i + 1)

\* line 134: input_df[feature_columns]
SelectColumns(df, feature_columns) ==
    [i \in DOMAIN feature_columns |->
        <<feature_columns[i], Item(df, feature_columns[i])>>]

\* FeatureFrame without the selection of line 134
FeatureFrameUnselected(prepared, feature_columns) ==
    AddMissingColumns(prepared.items, feature_columns, 1)

\* The frame handed to the scaler: DataFrame([input_data]) has the dict's
\* keys as columns, in the dict's order.
FeatureFrame(prepared, feature_columns) ==
    SelectColumns(AddMissingColumns(prepared.items, feature_columns, 1),
                  feature_columns)

Columns(df) == [i \in DOMAIN df |-> df[i][1]]

\* The outcome of one call: whether it raised, the result dict, the caller's
\* object after the call, the frame handed to the scaler (None when the
\* call ended before), and the estimator calls made on the frame, in order
\* (lines 139, 143, 144).  scaler.transform raises ValueError on a value
\* that is no number.
get_prediction(obj, files) ==
    LET loaded == load_model_components(files)
        prep == prepare_input_data(obj)
        df == FeatureFrame(prep.ret, loaded.value.feature_columns)
        input_scaled == scaler_transform(df)
        probability == predict_proba(Columns(df), input_scaled)
    IN IF loaded.raised
       THEN [raised |-> TRUE, value |-> loaded.value, arg |-> obj,
             input_df |-> NoneV, transforms |-> <<>>]
       ELSE IF \E i \in DOMAIN df : ~IsNum(df[i][2])
       THEN [raised |-> TRUE, value |-> Str("ValueError"), arg |-> prep.arg,
             input_df |-> df, transforms |-> <<"scaler.transform">>]
       ELSE [raised |-> FALSE,
             value |-> [prediction |-> predict(Columns(df), input_scaled),
                        probability |-> probability,
                        risk_level |-> get_risk_level(probability)],
             arg |-> prep.arg,
             input_df |-> df,
             transforms |-> <<"scaler.transform", "model.predict",
                              "model.predict_proba">>]

----------------------------------------------------------------------------
(* The process that serves the pages.  env is where it runs: its working   *)
(* directory (the project root, the project root's parent, or elsewhere),  *)
(* where the project root lies (it is /mount/src/diabetes-analysis, it is  *)
(* a directory in /mount/src/diabetes-analysis, or it is elsewhere) and    *)
(* which of the dataset's candidate files exist.  log counts the requests  *)
(* the process has taken, its calls of find_model_files (probes) and the   *)
(* bundles it has deserialized with joblib.load (loads), and keeps the     *)
(* estimator calls of the last get_prediction and the number of times the  *)
(* current request has called its loading or scoring operation (attempts). *)

DefaultEnv == [cwd |-> "elsewhere", root |-> "elsewhere", data |-> <<TRUE, FALSE>>]

NoLog ==
    [requests |-> 0, probes |-> 0, loads |-> 0, transforms |-> <<>>,
     attempts |-> 0]

\* get_prediction line 121: load_model_components() is called on every
\* call; it probes with find_model_files and then loads the three files.
Logged(lg, files, r) ==
    [lg EXCEPT !.probes = @ + 1,
               !.loads = @ + (IF load_model_components(files).raised THEN 0 ELSE 1),
               !.transforms = r.transforms,
               !.attempts = @ + 1]

----------------------------------------------------------------------------
(* The prediction page: predict.py:17-93 *)

\* requests one process is followed through
MaxRequests == 2

\* Values the form's widgets can hold (lines 31-41), around the thresholds.
AgeValues == {30, 60}
GenderOptions == {"Male", "Female"}
BmiValues == {22, 32}
BloodPressureValues == {110, 145}
GlucoseValues == {90, 130}
ExerciseValues == {10, 50}
SmokingOptions == {"Never", "Former", "Current"}
AlcoholValues == {0, 15}
StressOptions == {"Low", "Moderate", "High"}

\* lines 50-60: the dict literal, keys in this order
FormDict(age, gender, bmi, blood_pressure, glucose, exercise, smoking, alcohol, stress) ==
    << <<"Age", Num(age)>>,
       <<"Gender", Str(gender)>>,
       <<"BMI", Num(bmi)>>,
       <<"Blood_Pressure", Num(blood_pressure)>>,
       <<"Glucose_Level", Num(glucose)>>,
       <<"Exercise_Hours_Per_Week", Num(exercise)>>,
       <<"Smoking_Status", Str(smoking)>>,
       <<"Alcohol_Consumption_Per_Week", Num(alcohol)>>,
       <<"Stress_Level", Str(stress)>> >>

Forms ==
    {FormDict(age, gender, bmi, bp, glucose, exercise, smoking, alcohol, stress) :
        age \in AgeValues, gender \in GenderOptions, bmi \in BmiValues,
        bp \in BloodPressureValues, glucose \in GlucoseValues,
        exercise \in ExerciseValues, smoking \in SmokingOptions,
        alcohol \in AlcoholValues, stress \in StressOptions}

\* Deployments the page runs in: the bundle of either training script in
\* project_root/models, no bundle there, or one only under cwd/models.
Deployments ==
    {<<d1, NoDir, d3>> :
        d1 \in {NoDir, EmptyDir,
                BundleDir({"model", "scaler", "features", "imputer"}, "train_model"),
                BundleDir(filenames, "verify_and_train")},
        d3 \in {NoDir, BundleDir(filenames, "verify_and_train")}}

Init ==
    /\ fs \in Deployments
    /\ pc = "form"
    /\ form = NoneV
    /\ input_data = NoneV
    /\ input_df = NoneV
    /\ result = NoneV
    /\ recommendations = NoneV
    /\ n_calls = 0
    /\ env = DefaultEnv
    /\ log = NoLog
    /\ sessions = <<>>

\* "Predict Risk" is pressed: lines 47-60
Submit ==
    /\ pc = "form"
    /\ log.requests < MaxRequests
    /\ \E f \in Forms :
        /\ form' = f
        /\ input_data' = Dict(f)
    /\ pc' = "submitted"
    /\ log' = [log EXCEPT !.requests = @ + 1, !.attempts = 0]
    /\ UNCHANGED <<fs, input_df, result, recommendations, n_calls, env, sessions>>

\* line 63: result = get_prediction(input_data); an exception goes to the
\* handler of lines 86-93
GetPrediction ==
    /\ pc = "submitted"
    /\ LET r == get_prediction(input_data, fs)
       IN /\ input_data' = r.arg
          /\ input_df' = r.input_df
          /\ result' = [raised |-> r.raised, value |-> r.value]
          /\ pc' = IF r.raised THEN "error" ELSE "scored"
          /\ log' = Logged(log, fs, r)
    /\ UNCHANGED <<fs, form, recommendations, n_calls, env, sessions>>

\* line 64: recommendations = get_recommendations(input_data), then the
\* display of lines 67-84
GetRecommendations ==
    /\ pc = "scored"
    /\ LET r == get_recommendations(input_data)
       IN /\ recommendations' = r
          /\ pc' = IF r.raised THEN "error" ELSE "displayed"
    /\ UNCHANGED <<fs, form, input_data, input_df, result, n_calls, env, log, sessions>>

\* The page is run again for the next request.
Rerun ==
    /\ pc \in {"displayed", "error"}
    /\ pc' = "form"
    /\ form' = NoneV
    /\ input_data' = NoneV
    /\ input_df' = NoneV
    /\ result' = NoneV
    /\ recommendations' = NoneV
    /\ UNCHANGED <<fs, n_calls, env, log, sessions>>

Next == Submit \/ GetPrediction \/ GetRecommendations \/ Rerun

Spec == Init /\ [][Next]_vars

----------------------------------------------------------------------------
(* The three pages behind the sidebar: diabetes_app.py:141-150 calls the   *)
(* chosen page's render function, with no handler around the call.         *)

\* home.py:51: df = load_data() stands outside any try, so an exception
\* leaves render_home and main unhandled; otherwise the page is drawn.
RenderHome ==
    /\ pc = "navigation"
    /\ log.requests < MaxRequests
    /\ result' = find_data_file(env.data)
    /\ pc' = IF find_data_file(env.data).raised THEN "home_unhandled"
             ELSE "home_shown"
    /\ log' = [log EXCEPT !.requests = @ + 1, !.attempts = 1]
    /\ UNCHANGED <<fs, form, input_data, input_df, recommendations, n_calls, env, sessions>>

\* analytics.py:51-132: load_data() inside try; the handler of lines 125-132
\* shows the exception with st.error.
RenderAnalytics ==
    /\ pc = "navigation"
    /\ log.requests < MaxRequests
    /\ result' = find_data_file(env.data)
    /\ pc' = IF find_data_file(env.data).raised THEN "analytics_error"
             ELSE "analytics_shown"
    /\ log' = [log EXCEPT !.requests = @ + 1, !.attempts = 1]
    /\ UNCHANGED <<fs, form, input_data, input_df, recommendations, n_calls, env, sessions>>

\* the prediction page is chosen and shows its form
RenderPredict ==
    /\ pc = "navigation"
    /\ pc' = "form"
    /\ UNCHANGED <<fs, form, input_data, input_df, result, recommendations, n_calls, env, log, sessions>>

\* another page is chosen in the sidebar
Navigate ==
    /\ pc \in {"home_shown", "home_unhandled", "analytics_shown",
               "analytics_error", "form", "displayed", "error"}
    /\ pc' = "navigation"
    /\ form' = NoneV
    /\ input_data' = NoneV
    /\ input_df' = NoneV
    /\ result' = NoneV
    /\ recommendations' = NoneV
    /\ UNCHANGED <<fs, n_calls, env, log, sessions>>

\* deployments with and without the bundle and the dataset
InitPages ==
    /\ fs \in {<<BundleDir(filenames, "verify_and_train"), NoDir, NoDir>>, <<NoDir, NoDir, NoDir>>}
    /\ env \in {DefaultEnv, [DefaultEnv EXCEPT !.data = <<FALSE, FALSE>>]}
    /\ pc = "navigation"
    /\ form = NoneV
    /\ input_data = NoneV
    /\ input_df = NoneV
    /\ result = NoneV
    /\ recommendations = NoneV
    /\ n_calls = 0
    /\ log = NoLog
    /\ sessions = <<>>

NextPages ==
    \/ RenderHome
    \/ RenderAnalytics
    \/ RenderPredict
    \/ Submit
    \/ GetPrediction
    \/ GetRecommendations
    \/ Navigate

SpecPages == InitPages /\ [][NextPages]_vars

----------------------------------------------------------------------------
(* The functions of model_handler called on their own, on mappings a       *)
(* caller can pass.  form keeps the argument as it was passed; n_calls     *)
(* counts the calls made on the one object.                                *)

MaxCalls == 2

Restrict(items, keys) == SelectSeq(items, LAMBDA it : it[1] \in keys)
Reverse(items) == [i \in DOMAIN items |-> items[Len(items) + 1 - i]]

RuleKeys ==
    {"BMI", "Blood_Pressure", "Glucose_Level", "Exercise_Hours_Per_Week",
     "Smoking_Status", "Alcohol_Consumption_Per_Week", "Stress_Level"}

\* the two example profiles of the specification's testable properties
AllRulesProfile == FormDict(45, "Female", 32, 145, 130, 10, "Current", 15, "High")
HealthyProfile == FormDict(30, "Male", 22, 110, 90, 50, "Never", 0, "Low")

\* every combination of values on either side of each threshold
BoundaryProfiles ==
    {FormDict(45, "Female", bmi, bp, glucose, exercise, smoking, alcohol, stress) :
        bmi \in {25, 26, 30, 31}, bp \in {120, 121, 140, 141},
        glucose \in {100, 101, 126, 127}, exercise \in {24, 25},
        smoking \in {"Never", "Current"}, alcohol \in {14, 15},
        stress \in StressOptions}

\* mappings with fields missing
PartialProfiles ==
    {Restrict(f, keys) : f \in {AllRulesProfile, HealthyProfile},
                         keys \in SUBSET RuleKeys}

\* one field holding a value of another kind: a string, None, a code
OddValues == {Str("abc"), NoneV, Num(0), Num(2)}
OddProfiles ==
    {SetItem(f, k, v) : f \in {AllRulesProfile, HealthyProfile},
                        k \in RuleKeys, v \in OddValues}

RecInputs ==
    {Dict(f) : f \in {AllRulesProfile, HealthyProfile} \cup BoundaryProfiles
                     \cup PartialProfiles \cup OddProfiles}
    \cup {Series(f) : f \in PartialProfiles \cup OddProfiles}

\* prepare_input_data: every table string, strings outside the tables,
\* codes, None and a missing field, beside fields of other names
CategoryValues(codes) ==
    {Str(s) : s \in DOMAIN codes} \cup {Str("Other"), Str("high"), Num(1), NoneV}

PrepProfile(gender, smoking, stress) ==
    << <<"Name", Str("Current")>>, <<"Gender", gender>>, <<"BMI", Num(22)>>,
       <<"Smoking_Status", smoking>>, <<"Notes", Str("High")>>,
       <<"Stress_Level", stress>> >>

PrepProfiles ==
    {PrepProfile(gender, smoking, stress) :
        gender \in CategoryValues(GenderCodes),
        smoking \in CategoryValues(SmokingCodes),
        stress \in CategoryValues(StressCodes)}

PrepInputs ==
    {Dict(f) : f \in PrepProfiles}
    \cup {Dict(Restrict(f, keys)) : f \in {PrepProfile(Str("Female"), Str("Current"), Str("High"))},
                                    keys \in SUBSET {"Name", "Gender", "Smoking_Status", "Stress_Level"}}
    \cup {Series(f) : f \in {PrepProfile(Str("Female"), Str("Current"), Str("High")),
                             PrepProfile(Str("Male"), Str("Other"), Num(1))}}

\* get_prediction: the form's dict, the same items in another order, with
\* keys the schema does not know, with a derived column supplied, with keys
\* missing, and with values the tables or the scaler do not know
ScoredForms ==
    {FormDict(age, "Female", bmi, bp, glucose, 10, smoking, 15, stress) :
        age \in AgeValues, bmi \in BmiValues, bp \in BloodPressureValues,
        glucose \in GlucoseValues, smoking \in {"Never", "Current"},
        stress \in {"Low", "High"}}

PredInputs ==
    {Dict(f) : f \in ScoredForms}
    \cup {Dict(Reverse(f)) : f \in ScoredForms}
    \cup {Dict(<<<<"Patient_ID", Num(7)>>>> \o f) : f \in ScoredForms}
    \cup {Dict(<<<<"Age_BMI", Num(990)>>>> \o f) : f \in ScoredForms}
    \cup {Dict(Restrict(f, Keys(f) \ {"Gender", "BMI"})) : f \in ScoredForms}
    \cup {Dict(SetItem(f, "Gender", Str("Other"))) : f \in ScoredForms}
    \cup {Dict(SetItem(f, "BMI", Str("abc"))) : f \in ScoredForms}
    \cup {Series(f) : f \in ScoredForms}

\* bundles the calls are made against: either training script's, or none
CallDeployments ==
    {<<BundleDir({"model", "scaler", "features", "imputer"}, "train_model"), NoDir, NoDir>>,
     <<BundleDir(filenames, "verify_and_train"), NoDir, NoDir>>,
     <<NoDir, NoDir, NoDir>>}

DefaultDeployment ==
    <<BundleDir(filenames, "verify_and_train"), NoDir, NoDir>>

InitCalls ==
    /\ \/ /\ pc = "get_recommendations"
          /\ input_data \in RecInputs
          /\ fs = DefaultDeployment
       \/ /\ pc = "prepare_input_data"
          /\ input_data \in PrepInputs
          /\ fs = DefaultDeployment
       \/ /\ pc = "get_prediction"
          /\ input_data \in PredInputs
          /\ fs \in CallDeployments
    /\ form = input_data.items
    /\ input_df = NoneV
    /\ result = NoneV
    /\ recommendations = NoneV
    /\ n_calls = 0
    /\ env = DefaultEnv
    /\ log = NoLog
    /\ sessions = <<>>

InitRisk ==
    /\ pc = "get_risk_level"
    /\ input_data \in {Num(p) : p \in 0..100}
    /\ fs = DefaultDeployment
    /\ form = input_data
    /\ input_df = NoneV
    /\ result = NoneV
    /\ recommendations = NoneV
    /\ n_calls = 0
    /\ env = DefaultEnv
    /\ log = NoLog
    /\ sessions = <<>>

\* find_model_files and find_data_file: every state of the three candidate
\* directories (absent, empty, holding the bundle without its scaler,
\* holding the bundle) and of the two dataset locations
DirStates ==
    {NoDir, EmptyDir, BundleDir({"model", "features"}, "verify_and_train"),
     BundleDir(filenames, "verify_and_train")}

InitLoader ==
    /\ \/ /\ pc = "find_model_files"
          /\ fs \in {<<d1, d2, d3>> : d1 \in DirStates, d2 \in DirStates,
                                       d3 \in DirStates}
          /\ env = DefaultEnv
       \/ /\ pc = "find_data_file"
          /\ fs = DefaultDeployment
          /\ env \in {[DefaultEnv EXCEPT !.data = <<a, b>>] :
                          a \in BOOLEAN, b \in BOOLEAN}
    /\ input_data = NoneV
    /\ form = NoneV
    /\ input_df = NoneV
    /\ result = NoneV
    /\ recommendations = NoneV
    /\ n_calls = 0
    /\ log = NoLog
    /\ sessions = <<>>

CallFindModelFiles ==
    /\ pc = "find_model_files"
    /\ n_calls < MaxCalls
    /\ result' = find_model_files(fs)
    /\ n_calls' = n_calls + 1
    /\ UNCHANGED <<fs, pc, form, input_data, input_df, recommendations, env, log, sessions>>

CallFindDataFile ==
    /\ pc = "find_data_file"
    /\ n_calls < MaxCalls
    /\ result' = find_data_file(env.data)
    /\ n_calls' = n_calls + 1
    /\ UNCHANGED <<fs, pc, form, input_data, input_df, recommendations, env, log, sessions>>

\* a category name of one of the three categorical columns, encoded by the
\* serving path and by either training script
InitEncode ==
    /\ pc = "encode"
    /\ \E col \in DOMAIN DatasetCategories :
           input_data \in {Dict(<<<<col, Str(name)>>>>) :
                               name \in DatasetCategories[col]}
    /\ form = input_data.items
    /\ fs = DefaultDeployment
    /\ input_df = NoneV
    /\ result = NoneV
    /\ recommendations = NoneV
    /\ n_calls = 0
    /\ env = DefaultEnv
    /\ log = NoLog
    /\ sessions = <<>>

CallEncode ==
    /\ pc = "encode"
    /\ n_calls < MaxCalls
    /\ LET col == form[1][1]
           name == form[1][2].str
           r == prepare_input_data(input_data)
       IN /\ result' = Returned(
                  [serving |-> Item(r.ret.items, col),
                   train_model |-> Num(train_model_encode(col, name)),
                   verify_and_train |-> Num(verify_and_train_encode(col, name))])
          /\ input_data' = r.arg
    /\ n_calls' = n_calls + 1
    /\ UNCHANGED <<fs, pc, form, input_df, recommendations, env, log, sessions>>

\* the arguments diabetes_app's get_recommendations is called with, on
\* either side of its thresholds
AppProfiles ==
    {FormDict(45, "Female", bmi, bp, glucose, exercise, smoking, alcohol, stress) :
        bmi \in {25, 26, 31}, bp \in {120, 121, 141},
        glucose \in {100, 101, 127}, exercise \in {24, 25},
        smoking \in SmokingOptions, alcohol \in {7, 8},
        stress \in StressOptions}

InitApp ==
    /\ pc = "app_get_recommendations"
    /\ input_data \in {Dict(f) : f \in AppProfiles}
    /\ form = input_data.items
    /\ fs = DefaultDeployment
    /\ input_df = NoneV
    /\ result = NoneV
    /\ recommendations = NoneV
    /\ n_calls = 0
    /\ env = DefaultEnv
    /\ log = NoLog
    /\ sessions = <<>>

CallAppGetRecommendations ==
    /\ pc = "app_get_recommendations"
    /\ n_calls < MaxCalls
    /\ LET d == input_data.items
       IN recommendations' = Returned(app_get_recommendations(
              Item(d, "Age").num, Item(d, "BMI").num,
              Item(d, "Blood_Pressure").num, Item(d, "Glucose_Level").num,
              Item(d, "Exercise_Hours_Per_Week").num,
              Item(d, "Alcohol_Consumption_Per_Week").num,
              Item(d, "Smoking_Status").str, Item(d, "Stress_Level").str))
    /\ n_calls' = n_calls + 1
    /\ UNCHANGED <<fs, pc, form, input_data, input_df, result, env, log, sessions>>

\* CallGetRecommendations with the list kept between calls
CallGetRecommendationsShared ==
    /\ pc = "get_recommendations"
    /\ n_calls < MaxCalls
    /\ LET r == get_recommendations(input_data)
       IN recommendations' =
              IF n_calls = 0 \/ r.raised \/ recommendations.raised THEN r
              ELSE Returned(recommendations.value \o r.value)
    /\ n_calls' = n_calls + 1
    /\ UNCHANGED <<fs, pc, form, input_data, input_df, result, env, log, sessions>>

CallGetRecommendations ==
    /\ pc = "get_recommendations"
    /\ n_calls < MaxCalls
    /\ recommendations' = get_recommendations(input_data)
    /\ n_calls' = n_calls + 1
    /\ UNCHANGED <<fs, pc, form, input_data, input_df, result, env, log, sessions>>

CallPrepareInputData ==
    /\ pc = "prepare_input_data"
    /\ n_calls < MaxCalls
    /\ LET r == prepare_input_data(input_data)
       IN /\ result' = Returned(r.ret)
          /\ input_data' = r.arg
    /\ n_calls' = n_calls + 1
    /\ UNCHANGED <<fs, pc, form, input_df, recommendations, env, log, sessions>>

CallGetRiskLevel ==
    /\ pc = "get_risk_level"
    /\ n_calls < MaxCalls
    /\ result' = Returned(get_risk_level(input_data.num))
    /\ n_calls' = n_calls + 1
    /\ UNCHANGED <<fs, pc, form, input_data, input_df, recommendations, env, log, sessions>>

CallGetPrediction ==
    /\ pc = "get_prediction"
    /\ n_calls < MaxCalls
    /\ LET r == get_prediction(input_data, fs)
       IN /\ input_data' = r.arg
          /\ input_df' = r.input_df
          /\ result' = [raised |-> r.raised, value |-> r.value]
          /\ log' = Logged(log, fs, r)
    /\ n_calls' = n_calls + 1
    /\ UNCHANGED <<fs, pc, form, recommendations, env, sessions>>

NextCalls ==
    \/ CallGetRecommendations
    \/ CallPrepareInputData
    \/ CallGetRiskLevel
    \/ CallGetPrediction
    \/ CallFindModelFiles
    \/ CallFindDataFile
    \/ CallEncode
    \/ CallAppGetRecommendations

SpecCalls ==
    (InitCalls \/ InitRisk \/ InitLoader \/ InitEncode \/ InitApp)
        /\ [][NextCalls]_vars

----------------------------------------------------------------------------
(* Prediction requests served at the same time.  Streamlit runs each       *)
(* session's script in a thread of its own; the threads share the files on *)
(* disk and the module model_handler, which keeps no variable of its own.  *)
(* Each session holds its own locals of render_predict and get_prediction: *)
(* the dict, the bundle it loaded, the result, the list.  The threads      *)
(* interleave between the steps of get_prediction.                         *)

NSessions == 2

SessionIds == 1..NSessions

ConcurrentForms ==
    {AllRulesProfile, HealthyProfile,
     FormDict(60, "Male", 32, 110, 130, 50, "Former", 0, "Moderate")}

NoSession ==
    [pc |-> "form", form |-> NoneV, input_data |-> NoneV, bundle |-> NoneV,
     result |-> NoneV, recommendations |-> NoneV]

InitConcurrent ==
    /\ fs \in CallDeployments
    /\ sessions = [s \in SessionIds |-> NoSession]
    /\ pc = "concurrent"
    /\ form = NoneV
    /\ input_data = NoneV
    /\ input_df = NoneV
    /\ result = NoneV
    /\ recommendations = NoneV
    /\ n_calls = 0
    /\ env = DefaultEnv
    /\ log = NoLog

Others == <<fs, pc, form, input_data, input_df, result, recommendations, n_calls, env, log>>

\* predict.py:47-60: the session's own dict is built from its form
SessSubmit(s) ==
    /\ sessions[s].pc = "form"
    /\ \E f \in ConcurrentForms :
           sessions' = [sessions EXCEPT ![s] =
               [@ EXCEPT !.pc = "submitted", !.form = f, !.input_data = Dict(f)]]
    /\ UNCHANGED Others

\* model_handler.py:121: the bundle is read from disk into locals
SessLoad(s) ==
    /\ sessions[s].pc = "submitted"
    /\ LET loaded == load_model_components(fs)
       IN sessions' = [sessions EXCEPT ![s] =
              IF loaded.raised
              THEN [@ EXCEPT !.pc = "error", !.result = loaded]
              ELSE [@ EXCEPT !.pc = "loaded", !.bundle = loaded.value]]
    /\ UNCHANGED Others

\* SessPrepare with the prepared dict kept in one module-level variable
\* that every request in flight reads
SessPrepareShared(s) ==
    /\ sessions[s].pc = "loaded"
    /\ LET prepared == prepare_input_data(sessions[s].input_data).arg
       IN sessions' = [t \in SessionIds |->
              IF t = s THEN [sessions[t] EXCEPT !.pc = "prepared",
                                                !.input_data = prepared]
              ELSE IF sessions[t].pc \in {"loaded", "prepared"}
                   THEN [sessions[t] EXCEPT !.input_data = prepared]
              ELSE sessions[t]]
    /\ UNCHANGED Others

\* model_handler.py:124: prepare_input_data writes into the session's dict
SessPrepare(s) ==
    /\ sessions[s].pc = "loaded"
    /\ sessions' = [sessions EXCEPT ![s] =
           [@ EXCEPT !.pc = "prepared",
                     !.input_data = prepare_input_data(@).arg]]
    /\ UNCHANGED Others

\* model_handler.py:127-152: the frame is built from the prepared dict and
\* handed to the session's scaler and model (the dict holds codes already,
\* so encoding it again changes nothing)
SessScore(s) ==
    /\ sessions[s].pc = "prepared"
    /\ LET df == FeatureFrame(sessions[s].input_data,
                              sessions[s].bundle.feature_columns)
           input_scaled == scaler_transform(df)
           probability == predict_proba(Columns(df), input_scaled)
       IN sessions' = [sessions EXCEPT ![s] =
              IF \E i \in DOMAIN df : ~IsNum(df[i][2])
              THEN [@ EXCEPT !.pc = "error", !.result = Raised("ValueError")]
              ELSE [@ EXCEPT !.pc = "scored",
                             !.result = Returned(
                                 [prediction |-> predict(Columns(df), input_scaled),
                                  probability |-> probability,
                                  risk_level |-> get_risk_level(probability)])]]
    /\ UNCHANGED Others

\* predict.py:64-84
SessRecommend(s) ==
    /\ sessions[s].pc = "scored"
    /\ LET r == get_recommendations(sessions[s].input_data)
       IN sessions' = [sessions EXCEPT ![s] =
              [@ EXCEPT !.pc = IF r.raised THEN "error" ELSE "displayed",
                        !.recommendations = r]]
    /\ UNCHANGED Others

\* the session's page is run again
SessRerun(s) ==
    /\ sessions[s].pc \in {"displayed", "error"}
    /\ sessions' = [sessions EXCEPT ![s] = NoSession]
    /\ UNCHANGED Others

NextConcurrent ==
    \E s \in SessionIds :
        \/ SessSubmit(s)
        \/ SessLoad(s)
        \/ SessPrepare(s)
        \/ SessScore(s)
        \/ SessRecommend(s)
        \/ SessRerun(s)

SpecConcurrent == InitConcurrent /\ [][NextConcurrent]_vars

----------------------------------------------------------------------------
(* Training, then serving.  Here fs holds a fourth directory, the models   *)
(* directory in the parent of the project root, and the three candidate    *)
(* directories of find_model_files are looked up by where the process runs *)
(* (in the other specifications cwd is elsewhere and fs holds the three).  *)

\* model_dirs (model_handler.py:20-24) as directories on disk:
\*   1 project_root/models, 2 /mount/src/diabetes-analysis/models,
\*   3 the models directory of a cwd elsewhere, 4 parent of project_root/models
Candidates(files, e) ==
    <<files[1],
      files[IF e.root = "mount" THEN 1 ELSE IF e.root = "in_mount" THEN 4 ELSE 2],
      files[IF e.cwd = "project_root" THEN 1 ELSE IF e.cwd = "parent" THEN 4 ELSE 3]>>

\* os.makedirs(exist_ok=True) and the dumps: the files are added to what
\* the directory holds
Written(dir, files, by) ==
    [exists |-> TRUE, files |-> dir.files \cup files, by |-> by]

\* a bundle left by an earlier training
StaleDir == BundleDir(filenames, "earlier")

InitTrain ==
    /\ fs \in {<<d1, NoDir, d3, NoDir>> : d1 \in {NoDir, EmptyDir, StaleDir},
                                          d3 \in {NoDir, StaleDir}}
    /\ env \in {[cwd |-> c, root |-> r, data |-> <<TRUE, FALSE>>] :
                    c \in {"project_root", "parent", "elsewhere"},
                    r \in {"mount", "in_mount", "elsewhere"}}
    /\ pc = "untrained"
    /\ form = NoneV
    /\ input_data = NoneV
    /\ input_df = NoneV
    /\ result = NoneV
    /\ recommendations = NoneV
    /\ n_calls = 0
    /\ log = NoLog
    /\ sessions = <<>>

\* train_model.py train_model, lines 111-124: models_dir is three dirname
\* above app/models, the parent of the project root.  (The dataset it
\* reads, line 40, lies under that parent too and is taken to be there.)
TrainModel ==
    /\ n_calls = 0
    /\ pc' = "train_model"
    /\ fs' = [fs EXCEPT ![4] =
                 Written(@, {"model", "scaler", "imputer", "features"}, "train_model")]
    /\ UNCHANGED <<form, input_data, input_df, result, recommendations, n_calls, env, log, sessions>>

\* verify_and_train.py main, lines 127-143: paths['models'] is the models
\* directory beside the script, in the project root (lines 17-24); the
\* dataset is read from project_root/data.
VerifyAndTrain ==
    /\ n_calls = 0
    /\ env.data[1]
    /\ pc' = "verify_and_train"
    /\ fs' = [fs EXCEPT ![1] =
                 Written(@, {"model", "scaler", "features"}, "verify_and_train")]
    /\ UNCHANGED <<form, input_data, input_df, result, recommendations, n_calls, env, log, sessions>>

\* the next get_prediction calls of the serving process
ServeGetPrediction ==
    /\ pc \in {"train_model", "verify_and_train"}
    /\ n_calls < MaxCalls
    /\ \E f \in ConcurrentForms :
           LET r == get_prediction(Dict(f), Candidates(fs, env))
           IN /\ form' = f
              /\ input_data' = r.arg
              /\ input_df' = r.input_df
              /\ result' = [raised |-> r.raised, value |-> r.value]
              /\ log' = Logged(log, Candidates(fs, env), r)
    /\ n_calls' = n_calls + 1
    /\ UNCHANGED <<fs, pc, recommendations, env, sessions>>

NextTrain == TrainModel \/ VerifyAndTrain \/ ServeGetPrediction

SpecTrain == InitTrain /\ [][NextTrain]_vars

----------------------------------------------------------------------------
(* Claims about the prediction page *)

\* C1: within one prediction request the mapping built from the form is not
\* changed by get_prediction, so the recommendations shown are those of the
\* profile exactly as entered: once the page has displayed, input_data still
\* holds the entered values and the list equals get_recommendations of them.
C1_ProfileUnchangedByScoring ==
    pc = "displayed" =>
        /\ input_data = Dict(form)
        /\ recommendations = get_recommendations(Dict(form))

----------------------------------------------------------------------------
(* Claims about the functions called on their own (SpecCalls) *)

Called(fn) == pc = fn /\ n_calls > 0

BandOf(p, band) ==
    /\ band \in {"Low Risk", "Moderate Risk", "High Risk", "Very High Risk"}
    /\ band = "Low Risk" <=> p < 20
    /\ band = "Moderate Risk" <=> (20 <= p /\ p < 40)
    /\ band = "High Risk" <=> (40 <= p /\ p < 60)
    /\ band = "Very High Risk" <=> p >= 60

\* C2: for every probability p in [0,1] get_risk_level returns exactly one
\* of the four bands, Low iff p < 0.2, Moderate iff 0.2 <= p < 0.4, High iff
\* 0.4 <= p < 0.6, Very High iff p >= 0.6, and the risk_level of every
\* result of get_prediction is that band of the result's own probability.
C2_RiskBands ==
    /\ Called("get_risk_level") => BandOf(form.num, result.value)
    /\ (Called("get_prediction") /\ ~result.raised) =>
           /\ result.value.probability \in 0..100
           /\ BandOf(result.value.probability, result.value.risk_level)

C2_Witness ==
    /\ Called("get_prediction")
    /\ ~result.raised
    /\ result.value.probability = 40
    /\ result.value.risk_level = "High Risk"

\* the categories of the blocks, in the documented order
Category(block) ==
    CASE block \in {"Weight Management", "Weight Watch"} -> 1
      [] block \in {"Blood Pressure Management", "Blood Pressure Watch"} -> 2
      [] block \in {"Blood Sugar Control", "Blood Sugar Watch"} -> 3
      [] block = "Physical Activity" -> 4
      [] block = "Smoking Cessation" -> 5
      [] block = "Alcohol Moderation" -> 6
      [] block = "Stress Management" -> 7
      [] block = "General Health Tips" -> 8

BlocksOf(list, c) == SelectSeq(list, LAMBDA b : Category(b) = c)

\* the fields the rules compare with numbers
ComparedKeys ==
    {"BMI", "Blood_Pressure", "Glucose_Level", "Exercise_Hours_Per_Week",
     "Alcohol_Consumption_Per_Week"}

Comparable(items) == \A k \in ComparedKeys : Has(items, k) => IsNum(Item(items, k))

EndsWithGeneralOnce(r) ==
    /\ ~r.raised
    /\ Len(r.value) >= 1
    /\ r.value[Len(r.value)] = "General Health Tips"
    /\ Len(BlocksOf(r.value, 8)) = 1

\* C3 as stated: for every input mapping (any field values, fields missing
\* or not) get_recommendations returns a non-empty list whose last element
\* is the general-health block, which appears exactly once.
C3_AlwaysEndsWithGeneral ==
    Called("get_recommendations") => EndsWithGeneralOnce(recommendations)

\* C3 as amended: for every input mapping whose BMI, Blood_Pressure,
\* Glucose_Level, Exercise_Hours_Per_Week and Alcohol_Consumption_Per_Week
\* values, where present, are numbers (any Smoking_Status and Stress_Level
\* values, any fields missing), get_recommendations returns a non-empty list
\* whose last element is the general-health block, which appears exactly
\* once; a value of another kind in one of those five fields makes the call
\* raise TypeError and return no list.
C3_EndsWithGeneralWhenComparable ==
    Called("get_recommendations") =>
        IF Comparable(form)
        THEN EndsWithGeneralOnce(recommendations)
        ELSE recommendations = Raised("TypeError")

C3_Witness ==
    /\ Called("get_recommendations")
    /\ form = <<>>
    /\ recommendations = Returned(<<"Physical Activity", "General Health Tips">>)

\* C4: the blocks returned by get_recommendations appear in the category
\* order BMI, blood pressure, glucose, exercise, smoking, alcohol, stress,
\* general: of two blocks present, the one of the earlier category has the
\* smaller index.
C4_CategoryOrder ==
    (Called("get_recommendations") /\ ~recommendations.raised) =>
        \A i, j \in DOMAIN recommendations.value :
            Category(recommendations.value[i]) < Category(recommendations.value[j])
                => i < j

C4_Witness ==
    /\ Called("get_recommendations")
    /\ ~recommendations.raised
    /\ \E i \in DOMAIN recommendations.value :
        /\ i + 1 \in DOMAIN recommendations.value
        /\ recommendations.value[i] = "Smoking Cessation"
        /\ recommendations.value[i + 1] = "Alcohol Moderation"

Tiered(v, upper, lower, upperBlock, lowerBlock) ==
    IF v.num > upper THEN <<upperBlock>>
    ELSE IF lower < v.num /\ v.num <= upper THEN <<lowerBlock>>
    ELSE <<>>

TableBlocks(items, c) ==
    CASE c = 1 -> Tiered(Get(items, "BMI", Num(0)), 30, 25,
                         "Weight Management", "Weight Watch")
      [] c = 2 -> Tiered(Get(items, "Blood_Pressure", Num(0)), 140, 120,
                         "Blood Pressure Management", "Blood Pressure Watch")
      [] c = 3 -> Tiered(Get(items, "Glucose_Level", Num(0)), 126, 100,
                         "Blood Sugar Control", "Blood Sugar Watch")
      [] c = 4 -> IF Get(items, "Exercise_Hours_Per_Week", Num(0)).num < 25
                  THEN <<"Physical Activity">> ELSE <<>>
      [] c = 5 -> IF Get(items, "Smoking_Status", Str("")) = Str("Current")
                  THEN <<"Smoking Cessation">> ELSE <<>>
      [] c = 6 -> IF Get(items, "Alcohol_Consumption_Per_Week", Num(0)).num > 14
                  THEN <<"Alcohol Moderation">> ELSE <<>>
      [] c = 7 -> IF Get(items, "Stress_Level", Str("")) \in {Str("High"), Str("Moderate")}
                  THEN <<"Stress Management">> ELSE <<>>

\* C5: per metric, get_recommendations emits exactly the block of the
\* threshold table, with strict comparisons: BMI > 30 Weight Management,
\* 25 < BMI <= 30 Weight Watch, BMI <= 25 none; blood pressure > 140 /
\* (120,140] / <= 120 likewise; glucose > 126 / (100,126] / <= 100 likewise;
\* exercise < 2.5 the physical-activity block, >= 2.5 none; Smoking_Status
\* == 'Current' the smoking block; alcohol > 14 the alcohol block, <= 14
\* none; Stress_Level in {'High','Moderate'} the stress block.  Each metric
\* contributes at most one block.
C5_ThresholdTable ==
    (Called("get_recommendations") /\ ~recommendations.raised) =>
        \A c \in 1..7 :
            BlocksOf(recommendations.value, c) = TableBlocks(form, c)

C5_Witness ==
    /\ Called("get_recommendations")
    /\ ~recommendations.raised
    /\ Get(form, "BMI", Num(0)) = Num(30)
    /\ Get(form, "Blood_Pressure", Num(0)) = Num(120)
    /\ Get(form, "Glucose_Level", Num(0)) = Num(126)
    /\ Get(form, "Exercise_Hours_Per_Week", Num(0)) = Num(25)
    /\ Get(form, "Alcohol_Consumption_Per_Week", Num(0)) = Num(14)
    /\ Get(form, "Stress_Level", Str("")) = Str("Moderate")
    /\ recommendations.value =
           <<"Weight Watch", "Blood Sugar Watch", "Stress Management",
             "General Health Tips">>

Fired(items) == {c \in 1..7 : TableBlocks(items, c) # <<>>}

\* C6: the profile in which every rule fires (bmi=32, bp=145, glucose=130,
\* exercise=1, smoking=Current, alcohol=15, stress=High) yields exactly the
\* 8 blocks weight, blood pressure, blood sugar, physical activity, smoking
\* cessation, alcohol, stress, general, in that order; a profile in which no
\* rule fires yields exactly 1 block; in general the number of blocks is 1
\* plus the number of metric categories whose rule fires.
C6_BlockCount ==
    Called("get_recommendations") =>
        /\ form = AllRulesProfile =>
               recommendations =
                   Returned(<<"Weight Management", "Blood Pressure Management",
                              "Blood Sugar Control", "Physical Activity",
                              "Smoking Cessation", "Alcohol Moderation",
                              "Stress Management", "General Health Tips">>)
        /\ ~recommendations.raised =>
               /\ Len(recommendations.value) = 1 + Cardinality(Fired(form))
               /\ Fired(form) = {} =>
                      recommendations.value = <<"General Health Tips">>

C6_Witness ==
    /\ Called("get_recommendations")
    /\ form = AllRulesProfile
    /\ ~recommendations.raised
    /\ Len(recommendations.value) = 8

C6_WitnessNoRule ==
    /\ Called("get_recommendations")
    /\ form = HealthyProfile
    /\ recommendations = Returned(<<"General Health Tips">>)

KeyOf(c) ==
    CASE c = 1 -> "BMI"
      [] c = 2 -> "Blood_Pressure"
      [] c = 3 -> "Glucose_Level"
      [] c = 4 -> "Exercise_Hours_Per_Week"
      [] c = 5 -> "Smoking_Status"
      [] c = 6 -> "Alcohol_Consumption_Per_Week"
      [] c = 7 -> "Stress_Level"

\* C7: no rule suppresses another: the block emitted (or not) for a metric
\* is decided by that metric's field alone; it is the block emitted for the
\* mapping that holds only that field, whatever the other fields hold.
C7_NoSuppression ==
    (Called("get_recommendations") /\ ~recommendations.raised) =>
        \A c \in 1..7 :
            BlocksOf(recommendations.value, c) =
                BlocksOf(get_recommendations(Dict(Restrict(form, {KeyOf(c)}))).value, c)

C7_Witness ==
    /\ Called("get_recommendations")
    /\ ~recommendations.raised
    /\ Len(recommendations.value) = 3
    /\ recommendations.value[1] = "Weight Management"
    /\ recommendations.value[2] = "Blood Pressure Management"

\* C8: get_recommendations is a pure function: a call leaves its input
\* mapping unchanged, a second call on the mapping returns the list the
\* first returned, and the list is the one returned for a dict of the same
\* items.
C8_Pure ==
    [][pc = "get_recommendations" =>
           /\ input_data' = input_data
           /\ recommendations' = get_recommendations(Dict(form))
           /\ n_calls >= 1 => recommendations' = recommendations]_vars

C8_Witness ==
    /\ pc = "get_recommendations"
    /\ n_calls = MaxCalls
    /\ input_data = Series(form)
    /\ ~recommendations.raised
    /\ Len(recommendations.value) = 8

TableCode(k, s) ==
    CASE k = "Gender" /\ s = "Female" -> 1
      [] k = "Smoking_Status" /\ s = "Former" -> 1
      [] k = "Smoking_Status" /\ s = "Current" -> 2
      [] k = "Stress_Level" /\ s = "Moderate" -> 1
      [] k = "Stress_Level" /\ s = "High" -> 2
      [] OTHER -> 0

\* C9: prepare_input_data encodes every string value of Gender,
\* Smoking_Status and Stress_Level by the table Male 0, Female 1; Never 0,
\* Former 1, Current 2; Low 0, Moderate 1, High 2, maps every other string
\* of these three fields to 0 without raising, and leaves every other
\* field's value unchanged.
C9_Encoding ==
    Called("prepare_input_data") =>
        /\ ~result.raised
        /\ Columns(result.value.items) = Columns(form)
        /\ \A i \in DOMAIN form :
               LET k == form[i][1]
                   v == form[i][2]
               IN result.value.items[i][2] =
                      IF k \in {"Gender", "Smoking_Status", "Stress_Level"} /\ IsStr(v)
                      THEN Num(TableCode(k, v.str))
                      ELSE v

C9_Witness ==
    /\ Called("prepare_input_data")
    /\ form = PrepProfile(Str("Other"), Str("Current"), Str("High"))
    /\ result.value.items =
           << <<"Name", Str("Current")>>, <<"Gender", Num(0)>>, <<"BMI", Num(22)>>,
              <<"Smoking_Status", Num(2)>>, <<"Notes", Str("High")>>,
              <<"Stress_Level", Num(2)>> >>

SchemaOrdered(items, feature_columns) ==
    LET present == SelectSeq(feature_columns, LAMBDA col : Has(items, col))
    IN [i \in DOMAIN present |-> <<present[i], Item(items, present[i])>>]

\* C10: the frame get_prediction passes to the scaler has exactly the
\* columns of the loaded feature-column list, in that list's order and with
\* its length, for every input mapping; each column's value is decided by
\* the input's value under that key alone, so the frame is the same whatever
\* the order of the input's keys and whatever other keys the input carries.
C10_FrameMatchesSchema ==
    (Called("get_prediction") /\ ~load_model_components(fs).raised) =>
        LET feature_columns == load_model_components(fs).value.feature_columns
            encoded == prepare_input_data(Dict(form)).ret.items
        IN /\ Columns(input_df) = feature_columns
           /\ \A i \in DOMAIN input_df :
                  input_df[i][2] = Get(encoded, feature_columns[i], Num(0))
           /\ input_df = FeatureFrame(Dict(SchemaOrdered(encoded, feature_columns)),
                                      feature_columns)

C10_Witness ==
    /\ Called("get_prediction")
    /\ form[1][1] = "Stress_Level"
    /\ ~result.raised
    /\ Columns(input_df) = TrainModelColumns

C10_WitnessExtraKey ==
    /\ Called("get_prediction")
    /\ form[1][1] = "Patient_ID"
    /\ ~result.raised
    /\ Columns(input_df) = DatasetColumns

DerivedColumns ==
    {"Age_BMI", "BMI_Glucose", "Age_Risk", "BMI_Risk", "BP_Risk", "Glucose_Risk"}

\* C11: in get_prediction every column of the loaded feature-column list
\* that the input mapping lacks reaches the scaler holding the number 0,
\* every column the input has reaches it holding the input's encoded value,
\* and the call raises nothing as long as the values the input does supply
\* for the list's columns are numbers after encoding; with the 15-column
\* list of train_model.py the six derived columns are 0, and the call
\* succeeds, for every profile built by the form.
C11_MissingColumnsZero ==
    (Called("get_prediction") /\ ~load_model_components(fs).raised) =>
        LET feature_columns == load_model_components(fs).value.feature_columns
            encoded == prepare_input_data(Dict(form)).ret.items
            column(col) == Item(input_df, col)
        IN /\ \A i \in DOMAIN feature_columns :
                  column(feature_columns[i]) =
                      IF Has(form, feature_columns[i])
                      THEN Item(encoded, feature_columns[i])
                      ELSE Num(0)
           /\ (\A i \in DOMAIN feature_columns :
                   Has(form, feature_columns[i]) =>
                       IsNum(Item(encoded, feature_columns[i])))
                  => ~result.raised
           /\ (feature_columns = TrainModelColumns /\ form \in Forms) =>
                  /\ ~result.raised
                  /\ \A col \in DerivedColumns : column(col) = Num(0)

\* a profile built by the form scored against the 15-column list
C11_Witness ==
    /\ Called("get_prediction")
    /\ form \in Forms
    /\ ~result.raised
    /\ Columns(input_df) = TrainModelColumns
    /\ \A col \in DerivedColumns : Item(input_df, col) = Num(0)

\* an input that lacks two of the dataset's own columns
C11_WitnessLacking ==
    /\ Called("get_prediction")
    /\ ~Has(form, "Gender") /\ ~Has(form, "BMI")
    /\ ~result.raised
    /\ Item(input_df, "Gender") = Num(0) /\ Item(input_df, "BMI") = Num(0)
    /\ Item(input_df, "Age") = Item(form, "Age")

----------------------------------------------------------------------------
(* Claims about the transforms and the loading of the bundle, on the       *)
(* prediction page *)

\* the directory find_model_files settles on holds an imputer.joblib
\* (train_model.py:120)
BundleHasImputer ==
    /\ ~find_model_files(fs).raised
    /\ "imputer" \in fs[find_model_files(fs).value].files

Before(calls, a, b) ==
    \E i, j \in DOMAIN calls : i < j /\ calls[i] = a /\ calls[j] = b

\* C12: when the bundle holds an imputer, every prediction get_prediction
\* returns was made by imputer.transform, then scaler.transform, then
\* model.predict, the order train_model.py fitted them in; none is made on
\* a vector that skipped the imputation.
C12_ImputeScalePredict ==
    (pc \in {"scored", "displayed"} /\ BundleHasImputer) =>
        /\ Before(log.transforms, "imputer.transform", "scaler.transform")
        /\ Before(log.transforms, "scaler.transform", "model.predict")

\* C13: in one process the bundle is located and deserialized at most once:
\* once a load has succeeded, no later step probes the file system or
\* deserializes again.
C13_LoadedOnce ==
    [][log.loads >= 1 =>
          (log'.loads = log.loads /\ log'.probes = log.probes)]_vars

----------------------------------------------------------------------------
(* Claims about locating the bundle and the dataset *)

\* the candidate directories that hold the model, scaler and feature list
Holding == {i \in DOMAIN model_dirs :
               /\ fs[model_dirs[i]].exists
               /\ {"model", "scaler", "features"} \subseteq fs[model_dirs[i]].files}

\* C14: find_model_files succeeds whenever some candidate directory holds
\* the model, scaler and feature-list files, returning the paths in the
\* first such directory in probe order, and raises not-found only when no
\* candidate directory holds them.
C14_FirstHoldingDirectory ==
    Called("find_model_files") =>
        IF Holding # {}
        THEN result = Returned(model_dirs[CHOOSE i \in Holding :
                                              \A j \in Holding : i <= j])
        ELSE result.raised /\ result.value.str = "FileNotFoundError"

\* C15: when no candidate location exists the loader raises a not-found
\* error whose message lists every path probed: all three model directories
\* from find_model_files, both dataset paths from find_data_file; and
\* get_prediction passes the error of find_model_files on to its caller,
\* with no result and no estimator called.
C15_NotFoundListsProbedPaths ==
    /\ (pc \in {"find_model_files", "get_prediction"} /\ n_calls > 0
           /\ \A d \in 1..3 : ~fs[d].exists) =>
           /\ result.raised
           /\ result.value.str = "FileNotFoundError"
           /\ result.value.paths = {1, 2, 3}
           /\ pc = "get_prediction" =>
                  (input_df = NoneV /\ log.transforms = <<>> /\ log.loads = 0)
    /\ (Called("find_data_file") /\ \A l \in 1..2 : ~env.data[l]) =>
           /\ result.raised
           /\ result.value.str = "FileNotFoundError"
           /\ result.value.paths = {1, 2}

C15_Witness ==
    /\ Called("get_prediction")
    /\ \A d \in 1..3 : ~fs[d].exists
    /\ result.raised
    /\ result.value.paths = {1, 2, 3}

C15_WitnessData ==
    /\ Called("find_data_file")
    /\ \A l \in 1..2 : ~env.data[l]
    /\ result.raised
    /\ result.value.paths = {1, 2}

----------------------------------------------------------------------------
(* Claims about the pages *)

\* the request on display failed in loading or scoring
Failed ==
    \/ (result # NoneV /\ result.raised)
    \/ (recommendations # NoneV /\ recommendations.raised)

\* C16: every failure of artifact loading, dataset loading or scoring while
\* a page (home, predict, analytics) is rendered is caught by that page,
\* which shows an error message, and the failed operation was attempted
\* exactly once in the request.
C16_FailuresCaughtByPage ==
    Failed => (pc \in {"error", "analytics_error"} /\ log.attempts = 1)

----------------------------------------------------------------------------
(* Claims about requests served at the same time *)

\* what the request of form f yields when it runs alone against files
AloneResult(f, files) ==
    LET r == get_prediction(Dict(f), files)
    IN [raised |-> r.raised, value |-> r.value]

AloneRecommendations(f, files) ==
    get_recommendations(get_prediction(Dict(f), files).arg)

\* C17: under every interleaving of the steps of concurrent prediction
\* requests, no step changes the files of the bundle, a step of one request
\* changes nothing another request holds, and the result a request ends
\* with (prediction, probability, risk level, recommendations, or the
\* error) is the one the same request yields when it runs alone.
C17_RequestsIsolated ==
    [][/\ fs' = fs
       /\ \A s \in SessionIds :
              sessions'[s] # sessions[s] =>
                  \A t \in SessionIds \ {s} : sessions'[t] = sessions[t]
       /\ \A s \in SessionIds :
              /\ sessions'[s].pc \in {"scored", "displayed", "error"} =>
                     sessions'[s].result = AloneResult(sessions'[s].form, fs)
              /\ sessions'[s].pc = "displayed" =>
                     sessions'[s].recommendations =
                         AloneRecommendations(sessions'[s].form, fs)]_vars

\* one request is on display while another, of another profile, is between
\* its encoding and its scoring
C17_Witness ==
    /\ pc = "concurrent"
    /\ sessions[1].pc = "displayed"
    /\ sessions[2].pc = "prepared"
    /\ sessions[1].form = AllRulesProfile
    /\ sessions[2].form = HealthyProfile
    /\ sessions[1].result.value.risk_level # "Low Risk"

----------------------------------------------------------------------------
(* Claims about training and serving *)

\* C18: after either training script has completed, the files it wrote lie
\* in a directory find_model_files probes, so that the next get_prediction
\* loads the bundle just written, whatever the working directory, and the
\* feature-column list read back is the list the script wrote.
C18_TrainedBundleServed ==
    (pc \in {"train_model", "verify_and_train"} /\ n_calls > 0) =>
        LET loaded == load_model_components(Candidates(fs, env))
        IN /\ ~loaded.raised
           /\ ~result.raised
           /\ loaded.value.model = pc
           /\ loaded.value.feature_columns =
                  IF pc = "train_model" THEN TrainModelColumns ELSE DatasetColumns

----------------------------------------------------------------------------
(* Claims about the training scripts' encodings and the application's own  *)
(* recommendation function *)

\* C19: for every category name of Gender, Smoking_Status and Stress_Level
\* the code prepare_input_data assigns equals the code the mapping of
\* train_model.py assigns and the code the LabelEncoder of
\* verify_and_train.py assigns.
C19_ServingCodesMatchTraining ==
    Called("encode") =>
        /\ result.value.serving = result.value.train_model
        /\ result.value.serving = result.value.verify_and_train

\* the categories of the application's blocks, in the documented order
AppCategory(block) ==
    CASE block \in {"Weight Management", "Weight Watch"} -> 1
      [] block \in {"Blood Pressure Management", "Blood Pressure Watch"} -> 2
      [] block \in {"Blood Sugar Control", "Blood Sugar Watch"} -> 3
      [] block = "Physical Activity" -> 4
      [] block = "Smoking Cessation" -> 5
      [] block = "Alcohol Consumption" -> 6
      [] block \in {"Stress Management", "Stress Reduction"} -> 7
      [] block = "Regular Health Check-ups" -> 8

\* C20: the list diabetes_app's get_recommendations returns has its blocks
\* in the documented category order BMI, blood pressure, glucose, exercise,
\* smoking, alcohol, stress, general, for every input; the smoking block
\* comes before the alcohol block whenever both are in the list.
C20_AppCategoryOrder ==
    Called("app_get_recommendations") =>
        \A i, j \in DOMAIN recommendations.value :
            i < j => AppCategory(recommendations.value[i])
                         < AppCategory(recommendations.value[j])

----------------------------------------------------------------------------
(* Claims about repeated encoding *)

\* C21: prepare_input_data is idempotent: applied to the mapping it
\* returned it returns an equal mapping, the numeric codes passed through
\* and none re-mapped to 0, so that a second call on the same object
\* returns what the first returned, and a second get_prediction on the
\* same object hands the scaler the same frame and returns the same result.
C21_Idempotent ==
    [][/\ pc = "prepare_input_data" =>
              /\ prepare_input_data(result'.value).ret = result'.value
              /\ n_calls >= 1 => result' = result
       /\ pc = "get_prediction" =>
              (n_calls >= 1 => (input_df' = input_df /\ result' = result))]_vars

\* a dict with category names scored twice: the second call found the
\* codes the first had written
C21_Witness ==
    /\ pc = "get_prediction"
    /\ n_calls = MaxCalls
    /\ input_data.type = "dict"
    /\ Item(form, "Smoking_Status") = Str("Current")
    /\ ~result.raised
    /\ Item(input_data.items, "Smoking_Status") = Num(2)
    /\ Item(input_df, "Smoking_Status") = Num(2)
    /\ Item(input_df, "Gender") = Num(1)

\* prepare_input_data called twice on one dict of names
C21_WitnessPrepare ==
    /\ pc = "prepare_input_data"
    /\ n_calls = MaxCalls
    /\ input_data.type = "dict"
    /\ form = PrepProfile(Str("Female"), Str("Current"), Str("High"))
    /\ Item(result.value.items, "Gender") = Num(1)
    /\ Item(result.value.items, "Stress_Level") = Num(2)

====
